---- MODULE Spec2Model ----
(***************************************************************************)
(* Model of swirlypy's Course (src/course.py): the lesson resolver, the    *)
(* temporary extraction of a packaged course and the selection loop.       *)
(*                                                                         *)
(* A text is a sequence of one-character strings.  The lesson engine, the  *)
(* slug function, YAML and tar are external: a call to one of them either  *)
(* returns or raises an exception of a class derived from Exception.       *)
(***************************************************************************)
EXTENDS Integers, Sequences, FiniteSets, TLC

(* ------------------------------ bounds -------------------------------- *)

\* longest "lessons" field of the course document
MaxLessonsLen == 2
\* longest selector typed at the prompt, surrounding blanks not counted
MaxSelLen == 2
\* lines read from the input stream in one run
MaxAttempts == 2
\* most elements of the list the course document parses to
MaxDocs == 2

(* ------------------------------- texts -------------------------------- *)

Digits == <<"0", "1", "2", "3", "4", "5", "6", "7", "8", "9">>

DigitSet == {Digits[k] : k \in 1..10}

DigitVal(c) == (CHOOSE k \in 1..10 : Digits[k] = c) - 1

Whitespace == {" "}

\* every text over the characters cs of length at most n
TextsUpTo(cs, n) == UNION {[1..k -> cs] : k \in 0..n}

RECURSIVE NatStr(_)
NatStr(n) == IF n < 10 THEN <<Digits[n + 1]>>
             ELSE NatStr(n \div 10) \o <<Digits[(n % 10) + 1]>>

\* str(i), as "%d" prints it
Str(i) == IF i < 0 THEN <<"-">> \o NatStr(0 - i) ELSE NatStr(i)

RECURSIVE LStrip(_)
LStrip(s) == IF s # <<>> /\ Head(s) \in Whitespace THEN LStrip(Tail(s)) ELSE s

RECURSIVE RStrip(_)
RStrip(s) == IF s # <<>> /\ s[Len(s)] \in Whitespace
             THEN RStrip(SubSeq(s, 1, Len(s) - 1)) ELSE s

\* str.strip()
Strip(s) == RStrip(LStrip(s))

RECURSIVE DigitsValue(_)
DigitsValue(s) == IF s = <<>> THEN 0
                  ELSE 10 * DigitsValue(SubSeq(s, 1, Len(s) - 1))
                       + DigitVal(s[Len(s)])

\* the digit groups int() accepts: digits, single underscores between them
IsIntBody(b) ==
    /\ b # <<>>
    /\ \A k \in 1..Len(b) : b[k] \in DigitSet \cup {"_"}
    /\ b[1] # "_"
    /\ b[Len(b)] # "_"
    /\ \A k \in 1..(Len(b) - 1) : ~(b[k] = "_" /\ b[k + 1] = "_")

DropUnderscores(b) == SelectSeq(b, LAMBDA c : c # "_")

\* int(s): ok is FALSE where int raises ValueError
ParseInt(s) ==
    LET t    == Strip(s)
        neg  == t # <<>> /\ Head(t) = "-"
        body == IF t # <<>> /\ Head(t) \in {"+", "-"} THEN Tail(t) ELSE t
    IN  IF IsIntBody(body)
        THEN [ok |-> TRUE,
              val |-> IF neg THEN 0 - DigitsValue(DropUnderscores(body))
                      ELSE DigitsValue(DropUnderscores(body))]
        ELSE [ok |-> FALSE, val |-> 0]

\* position of the first sep in s, 0 when there is none
FirstPos(s, sep) ==
    IF \E k \in 1..Len(s) : s[k] = sep
    THEN CHOOSE k \in 1..Len(s) :
            s[k] = sep /\ \A j \in 1..(k - 1) : s[j] # sep
    ELSE 0

RECURSIVE Split(_, _)
\* s.split(sep) for a one-character sep: never an empty list
Split(s, sep) ==
    LET p == FirstPos(s, sep)
    IN  IF p = 0 THEN <<s>>
        ELSE <<SubSeq(s, 1, p - 1)>> \o Split(SubSeq(s, p + 1, Len(s)), sep)

(* ------------------------------- lists -------------------------------- *)

\* list[k] with Python's zero-based k: negative k counts from the end,
\* ok is FALSE where Python raises IndexError
PyGetItem(list, k) ==
    IF 0 <= k /\ k < Len(list) THEN [ok |-> TRUE, item |-> list[k + 1]]
    ELSE IF k < 0 /\ 0 - Len(list) <= k
         THEN [ok |-> TRUE, item |-> list[Len(list) + k + 1]]
         ELSE [ok |-> FALSE, item |-> <<>>]

\* list.index taken to count from one
ListIndexOneBased(list, x) ==
    IF \E k \in 1..Len(list) : list[k] = x
    THEN [ok |-> TRUE,
          pos |-> CHOOSE k \in 1..Len(list) :
                     list[k] = x /\ \A j \in 1..(k - 1) : list[j] # x]
    ELSE [ok |-> FALSE, pos |-> 0]

\* list.index(x): the zero-based position of the first element equal to x,
\* ok is FALSE where Python raises ValueError
ListIndex(list, x) ==
    IF \E k \in 1..Len(list) : list[k] = x
    THEN [ok |-> TRUE,
          pos |-> (CHOOSE k \in 1..Len(list) :
                      list[k] = x /\ \A j \in 1..(k - 1) : list[j] # x) - 1]
    ELSE [ok |-> FALSE, pos |-> 0]

(* ------------------------------- state -------------------------------- *)

VARIABLES
    y,             \* load_yaml's y: what yaml.safe_load returned
    coursename,    \* Course.course
    author,        \* Course.author
    description,   \* Course.description
    version,       \* Course.version
    lessonnames,   \* Course.lessonnames
    coursedir,     \* Course.coursedir
    pkgname,       \* Course.pkgname
    packaged,      \* Course.packaged
    pc,            \* where the program is: start (before Course.load), and
                   \* in execute menu, input, resolve, extract, load, run,
                   \* cleanup, handler, done (returned), raised
    identifier,    \* execute's identifier: the stripped line
    converted,     \* execute_lesson's identifier after the int() attempt
    lessonname,    \* execute_lesson's lessonname
    tempdir,       \* execute_lesson's tempdir: 0 while unbound
    curcoursedir,  \* execute_lesson's curcoursedir
    lessonpath,    \* execute_lesson's lessonpath
    exc,           \* the exception in flight, "none" when there is none
    failure,       \* where and as what the last exception was first raised
    dirs,          \* the temporary directories that exist on disk
    rmfailed,      \* the directories whose rmtree failed, errors ignored
    out,           \* the lines printed since the loop body was entered
    nattempts      \* lines read so far

vars == <<y, coursename, author, description, version, lessonnames,
          coursedir, pkgname, packaged, pc, identifier, converted,
          lessonname, tempdir, curcoursedir, lessonpath, exc, failure, dirs,
          rmfailed, out, nattempts>>

course == <<coursename, author, description, version, lessonnames,
            coursedir, pkgname, packaged>>

locals == <<converted, lessonname, tempdir, curcoursedir, lessonpath>>

\* the exception classes told apart: the two the loop has a clause for, and
\* OSError for every other class derived from Exception
Kinds == {"NoSuchLessonException", "EOFError", "OSError"}

\* what the external call made at a stage can raise.  A truncated compressed
\* archive ends extractall with EOFError; a lesson reads the same input as
\* the loop, and the engine that executes it is free to raise anything
Raises(stage) ==
    IF stage = "execute" THEN Kinds
    ELSE IF stage = "extract" THEN {"EOFError", "OSError"}
    ELSE {"OSError"}

NoFailure == [stage |-> "none", kind |-> "none"]

NoConverted == [isint |-> FALSE, num |-> 0, text |-> <<>>]

NoDir == [tmp |-> 0, name |-> <<>>]

NoPath == [root |-> NoDir, sub |-> "", slug |-> <<>>, ext |-> ""]

\* one printed line: the format, its %d argument and its %s argument
Line(fmt, num, text) == [fmt |-> fmt, num |-> num, text |-> text]

(* ------------------------ what the input can be ----------------------- *)

LessonChars == {"a", "2", ";"}

SelChars == {"0", "2", "-", "a"}

\* the "lessons" fields of the course documents considered
LessonsFields == TextsUpTo(LessonChars, MaxLessonsLen)

\* the selectors considered: short texts, and every index around the range
Selectors == TextsUpTo(SelChars, MaxSelLen)
             \cup {Str(i) : i \in (0 - 2)..(MaxLessonsLen + 2)}

Pads == {<<>>, <<" ">>}

\* the lines the user can type: a selector with blanks around it
RawInputs == {l \o s \o r : l \in Pads, s \in Selectors, r \in Pads}

\* what input("Selection: ").strip() can return for those lines
StrippedInputs == {Strip(raw) : raw \in RawInputs}

(* ------------------------ what is on the disk ------------------------- *)

\* a packaged course, x/c.t.g, and a raw one, x/c
ArchivePath == <<"x", "/", "c", ".", "t", ".", "g">>

DirectoryPath == <<"x", "/", "c">>

CourseDirs == {ArchivePath, DirectoryPath}

\* os.path.exists in place of os.path.isfile
PathExists(path) == path \in {ArchivePath, DirectoryPath}

\* os.path.isfile
IsFile(path) == path = ArchivePath

\* one element of the course document, its keys in lower case
Doc(lessons) ==
    [course |-> <<"C">>, lessons |-> lessons, author |-> <<"A">>,
     version |-> <<"1">>, description |-> <<>>]

\* the elements a course document may hold after its first
LaterDocs == {Doc(<<"a">>), Doc(<<"2", ";", "a">>)}

\* the lists yaml.safe_load may return: none, one or several elements
Documents ==
    UNION {{<<Doc(l)>> \o rest : l \in LessonsFields,
                                 rest \in [1..(k - 1) -> LaterDocs]}
           : k \in 1..MaxDocs}
    \cup {<<>>}

(* ------------------- Course.load and Course.__init__ ------------------ *)

\* the text after the last "/"
RECURSIVE Basename(_)
Basename(path) ==
    LET p == FirstPos(path, "/")
    IN  IF p = 0 THEN path ELSE Basename(SubSeq(path, p + 1, Len(path)))

\* split() without an argument: empty names are dropped
SplitDroppingEmpty(lessons) ==
    SelectSeq(Split(lessons, ";"), LAMBDA n : n # <<>>)

\* lessons.split(";")
InitLessonNames(lessons) == Split(lessons, ";")

\* os.path.basename(coursedir).split(".")[0]
PkgName(dir) == Split(Basename(dir), ".")[1]

\* the last element taken for the first
WhichDocLast(list) == Len(list)

\* y[0]: the element of the document the course is built from
WhichDoc(list) == 1

Init ==
    /\ y \in Documents
    /\ coursedir \in CourseDirs
    /\ coursename = <<>>
    /\ author = <<>>
    /\ description = <<>>
    /\ version = <<>>
    /\ lessonnames = <<>>
    /\ pkgname = <<>>
    /\ packaged = FALSE
    /\ pc = "start"
    /\ identifier = <<>>
    /\ converted = NoConverted
    /\ lessonname = <<>>
    /\ tempdir = 0
    /\ curcoursedir = NoDir
    /\ lessonpath = NoPath
    /\ exc = "none"
    /\ failure = NoFailure
    /\ dirs = {}
    /\ rmfailed = {}
    /\ out = <<>>
    /\ nattempts = 0

\* Course.load(coursedir), and then the caller starts execute
LoadCourse ==
    /\ pc = "start"
    /\ \/ \E kind \in Raises("course.yaml") :
            \* the archive or course.yaml cannot be opened or parsed
            /\ exc' = kind
            /\ failure' = [stage |-> "course.yaml", kind |-> kind]
            /\ pc' = "raised"
            /\ UNCHANGED <<coursename, author, description, version,
                           lessonnames, pkgname, packaged>>
       \/ /\ Len(y) < 1
          /\ exc' = "NoCoursePresentException"
          /\ failure' = [stage |-> "load_yaml",
                         kind |-> "NoCoursePresentException"]
          /\ pc' = "raised"
          /\ UNCHANGED <<coursename, author, description, version,
                         lessonnames, pkgname, packaged>>
       \/ /\ ~(Len(y) < 1)
          /\ LET document == y[WhichDoc(y)]
             IN  /\ coursename' = document.course
                 /\ lessonnames' = InitLessonNames(document.lessons)
                 /\ author' = document.author
                 /\ version' = document.version
                 /\ description' = document.description
          /\ pkgname' = PkgName(coursedir)
          /\ packaged' = IsFile(coursedir)
          /\ pc' = "menu"
          /\ UNCHANGED <<exc, failure>>
    /\ y' = <<>>
    /\ UNCHANGED <<coursedir, locals, identifier, dirs, rmfailed, out,
                   nattempts>>

(* ---------------------- Course.print and Course.menu ------------------ *)

\* Course.print: "%s by %s: %s", or "%s by %s" without a description; the
\* line holds the texts put into the format, in order
PrintLines(c, a, d) ==
    IF Len(d) > 0 THEN <<[fmt |-> "%s by %s: %s", num |-> 0, text |-> <<c, a, d>>]>>
    ELSE <<[fmt |-> "%s by %s", num |-> 0, text |-> <<c, a>>]>>


\* enumerate's index printed as it is, from zero
MenuLinesFromZero(names) ==
    [k \in 1..Len(names) |-> Line("%d: %s", k - 1, names[k])]

\* "%d: %s" % (index + 1, lesson) for every lesson, in order
MenuLines(names) == [k \in 1..Len(names) |-> Line("%d: %s", k, names[k])]

\* a menu that uses the list up while printing it
MenuConsumesLessons ==
    /\ pc = "menu"
    /\ out' = MenuLines(lessonnames)
    /\ lessonnames' = Tail(lessonnames)
    /\ failure' = NoFailure
    /\ pc' = "input"
    /\ UNCHANGED <<y, coursename, author, description, version, coursedir,
                   pkgname, packaged, locals, identifier, exc, dirs,
                   rmfailed, nattempts>>

\* the top of the while loop: a new pass through its body prints the menu
Menu ==
    /\ pc = "menu"
    /\ out' = MenuLines(lessonnames)
    /\ failure' = NoFailure
    /\ pc' = "input"
    /\ UNCHANGED <<y, course, locals, identifier, exc, dirs, rmfailed, nattempts>>

(* ------------------------- input("Selection: ") ----------------------- *)

\* a line is read and stripped, or the input has ended and input() raises
Input ==
    /\ pc = "input"
    /\ \/ /\ nattempts < MaxAttempts
          /\ identifier' \in StrippedInputs
          /\ nattempts' = nattempts + 1
          /\ pc' = "resolve"
          /\ UNCHANGED <<exc, failure>>
       \/ /\ exc' = "EOFError"
          /\ failure' = [stage |-> "input", kind |-> "EOFError"]
          /\ pc' = "handler"
          /\ UNCHANGED <<identifier, nattempts>>
    /\ out' = Append(out, Line("Selection: ", 0, <<>>))
    /\ UNCHANGED <<y, course, locals, dirs, rmfailed>>

(* ---------------------- execute_lesson: resolving --------------------- *)

\* the int() attempt left out: every selector stays a text
ConvertNever(s) == [isint |-> FALSE, num |-> 0, text |-> s]

\* identifier = int(identifier), left as it is on ValueError
Convert(s) ==
    LET r == ParseInt(s)
    IN  IF r.ok THEN [isint |-> TRUE, num |-> r.val, text |-> <<>>]
        ELSE [isint |-> FALSE, num |-> 0, text |-> s]

\* the index used as it is, without the "- 1"
LookupZeroBased(names, id) ==
    IF id.isint
    THEN LET g == PyGetItem(names, id.num)
         IN  [ok |-> g.ok, name |-> g.item]
    ELSE LET ix == ListIndex(names, id.text)
         IN  IF ix.ok
             THEN [ok |-> TRUE, name |-> PyGetItem(names, ix.pos).item]
             ELSE [ok |-> FALSE, name |-> <<>>]

\* the lesson the converted identifier names; ok is FALSE where
\* NoSuchLessonException is raised
Lookup(names, id) ==
    IF id.isint
    THEN LET g == PyGetItem(names, id.num - 1)
         IN  [ok |-> g.ok, name |-> g.item]
    ELSE LET ix == ListIndex(names, id.text)
         IN  IF ix.ok
             THEN [ok |-> TRUE, name |-> PyGetItem(names, ix.pos).item]
             ELSE [ok |-> FALSE, name |-> <<>>]

Resolve ==
    /\ pc = "resolve"
    /\ \E id \in {Convert(identifier)} : \E r \in {Lookup(lessonnames, id)} :
           IF r.ok
           THEN /\ converted' = id
                /\ lessonname' = r.name
                /\ pc' = "extract"
                /\ UNCHANGED <<exc, failure>>
           ELSE /\ exc' = "NoSuchLessonException"
                /\ failure' = [stage |-> "resolve",
                               kind |-> "NoSuchLessonException"]
                /\ pc' = "handler"
                /\ UNCHANGED <<converted, lessonname>>
    /\ UNCHANGED <<y, course, identifier, tempdir, curcoursedir, lessonpath,
                   dirs, rmfailed, out, nattempts>>

(* --------------------- execute_lesson: extracting --------------------- *)

\* the name tempfile.mkdtemp() returns: fresh, one for each attempt
MkdtempName == nattempts

\* the package name left out of the join
ExtractedRootBare(t, pkg) == [tmp |-> t, name |-> <<>>]

\* os.path.join(tempdir, self.pkgname)
ExtractedRoot(t, pkg) == [tmp |-> t, name |-> pkg]

\* a raw course is used where it lies
RawRoot(dir) == [tmp |-> 0, name |-> dir]

\* execute_lesson is left: its locals are gone
LeaveExecuteLesson ==
    /\ converted' = NoConverted
    /\ lessonname' = <<>>
    /\ tempdir' = 0
    /\ curcoursedir' = NoDir
    /\ lessonpath' = NoPath

\* kind is raised at stage, outside any try of execute_lesson
RaiseOut(stage, kind) ==
    /\ exc' = kind
    /\ failure' = [stage |-> stage, kind |-> kind]
    /\ pc' = "handler"
    /\ LeaveExecuteLesson

Extract ==
    /\ pc = "extract"
    /\ IF packaged
       THEN \/ \E kind \in Raises("mkdtemp") :
                 \* mkdtemp raises: nothing was created
                 /\ RaiseOut("mkdtemp", kind)
                 /\ UNCHANGED dirs
            \/ \E kind \in Raises("extract") :
                 \* tarfile.open or extractall raises, the directory is there
                 /\ RaiseOut("extract", kind)
                 /\ dirs' = dirs \cup {MkdtempName}
            \/ /\ tempdir' = MkdtempName
               /\ dirs' = dirs \cup {MkdtempName}
               /\ curcoursedir' = ExtractedRoot(MkdtempName, pkgname)
               /\ pc' = "load"
               /\ UNCHANGED <<converted, lessonname, lessonpath, exc, failure>>
       ELSE /\ curcoursedir' = RawRoot(coursedir)
            /\ pc' = "load"
            /\ UNCHANGED <<converted, lessonname, tempdir, lessonpath, exc,
                           failure, dirs>>
    /\ UNCHANGED <<y, course, identifier, rmfailed, out, nattempts>>

(* ------------------ execute_lesson: loading and running --------------- *)

\* os.path.join(curcoursedir, "lessons", slugify(lessonname) + ".yaml");
\* slug holds the name that slugify is applied to
LessonPath(root, name) ==
    [root |-> root, sub |-> "lessons", slug |-> name, ext |-> ".yaml"]

\* the steps inside the try of execute_lesson
TryStages == {"path", "open", "parse", "execute"}

\* kind is raised at stage, inside the try of execute_lesson
RaiseInTry(stage, kind) ==
    /\ exc' = kind
    /\ failure' = [stage |-> stage, kind |-> kind]
    /\ pc' = "cleanup"

Load ==
    /\ pc = "load"
    /\ \/ \E kind \in Raises("path") :
            \* slugify raises
            /\ RaiseInTry("path", kind)
            /\ UNCHANGED lessonpath
       \/ \E stage \in {"open", "parse"} : \E kind \in Raises(stage) :
            \* open or Lesson.load_yaml raises
            /\ RaiseInTry(stage, kind)
            /\ lessonpath' = LessonPath(curcoursedir, lessonname)
       \/ /\ lessonpath' = LessonPath(curcoursedir, lessonname)
          /\ pc' = "run"
          /\ UNCHANGED <<exc, failure>>
    /\ UNCHANGED <<y, course, identifier, converted, lessonname, tempdir,
                   curcoursedir, dirs, rmfailed, out, nattempts>>

\* the separator alone, the message forgotten
SeparatorOnly(name) == <<Line("", 0, <<>>)>>

\* print() and print("Lesson %s complete!" % lessonname)
CompletionLines(name) ==
    <<Line("", 0, <<>>), Line("Lesson %s complete!", 0, name)>>

Run ==
    /\ pc = "run"
    /\ \/ \E kind \in Raises("execute") :
            \* lesson.execute() raises
            /\ RaiseInTry("execute", kind)
            /\ UNCHANGED <<locals, out>>
       \/ \* lesson.execute() returns, and then execute_lesson does
          /\ out' = out \o CompletionLines(lessonname)
          /\ LeaveExecuteLesson
          /\ pc' = "menu"
          /\ UNCHANGED <<exc, failure>>
    /\ UNCHANGED <<y, course, identifier, dirs, rmfailed, nattempts>>

(* ------------------ execute_lesson: the except clause ----------------- *)

\* a narrower clause: except OSError
ExceptOSErrorOnly(kind) == kind = "OSError"

\* except Exception: every kind modelled derives from Exception
ExceptException(kind) == kind \in Kinds

\* rmtree without ignore_errors: its own error replaces the one caught
RaisesRemovalError(e, removed) == IF removed THEN e ELSE "OSError"

\* the exception in flight after shutil.rmtree(tempdir, ignore_errors = True)
\* and the bare raise: the one caught, whether the tree was removed or not
AfterRmtree(e, removed) == e

Cleanup ==
    /\ pc = "cleanup"
    /\ IF ExceptException(exc) /\ packaged
       THEN \/ /\ dirs' = dirs \ {tempdir}
               /\ exc' = AfterRmtree(exc, TRUE)
               /\ UNCHANGED rmfailed
            \/ \* the removal fails and the error is ignored
               /\ rmfailed' = rmfailed \cup {tempdir}
               /\ exc' = AfterRmtree(exc, FALSE)
               /\ UNCHANGED dirs
       ELSE UNCHANGED <<dirs, rmfailed, exc>>
    /\ LeaveExecuteLesson
    /\ pc' = "handler"
    /\ UNCHANGED <<y, course, identifier, failure, out, nattempts>>

(* ---------------------- execute: the except clauses ------------------- *)

\* the EOFError clause without its break: reported like an unknown lesson
ClauseNeverBreaks(kind) ==
    IF kind \in {"NoSuchLessonException", "EOFError"} THEN "report"
    ELSE "none"

\* the clause for NoSuchLessonException left out
ClauseEOFOnly(kind) == IF kind = "EOFError" THEN "bye" ELSE "none"

\* the except clause of execute that takes an exception of this kind
Clause(kind) ==
    IF kind = "NoSuchLessonException" THEN "report"
    ELSE IF kind = "EOFError" THEN "bye" ELSE "none"

Handler ==
    /\ pc = "handler"
    /\ IF Clause(exc) = "report"
       THEN /\ out' = Append(out, Line("No lesson: %s", 0, identifier))
            /\ exc' = "none"
            /\ pc' = "menu"
       ELSE IF Clause(exc) = "bye"
            THEN /\ out' = out \o <<Line("", 0, <<>>), Line("Bye!", 0, <<>>)>>
                 /\ exc' = "none"
                 /\ pc' = "done"
            ELSE \* no clause matches: the exception leaves execute
                 /\ pc' = "raised"
                 /\ UNCHANGED <<out, exc>>
    /\ UNCHANGED <<y, course, locals, identifier, failure, dirs, rmfailed,
                   nattempts>>

(* --------------------------- specification ---------------------------- *)

Next ==
    \/ LoadCourse
    \/ Menu
    \/ Input
    \/ Resolve
    \/ Extract
    \/ Load
    \/ Run
    \/ Cleanup
    \/ Handler

Spec == Init /\ [][Next]_vars

(* ------------------- the temporary directory's life ------------------- *)

\* C1: for a packaged course, when a lesson attempt completes successfully
\* its temporary directory is gone before the loop is back at its top, so
\* that none is left at the next prompt or at the end of the input.
C1_SuccessRemovesTempDir ==
    [][(packaged /\ pc = "run" /\ pc' = "menu") => tempdir \notin dirs']_vars

\* C2: for a packaged course, when a step inside the try fails (building the
\* path, opening, parsing, executing), rmtree has been applied to this
\* attempt's temporary directory when the failure leaves execute_lesson (it
\* is gone unless the removal itself failed), and the exception in flight is
\* the one first raised, also when the removal failed.
C2_CleanupThenOriginal ==
    (pc = "handler" /\ packaged /\ failure.stage \in TryStages)
        => /\ MkdtempName \notin dirs \/ MkdtempName \in rmfailed
           /\ exc = failure.kind

\* an execute that failed with EOFError, its directory removed
C2_Witness ==
    /\ pc = "handler"
    /\ packaged
    /\ failure = [stage |-> "execute", kind |-> "EOFError"]
    /\ exc = "EOFError"
    /\ MkdtempName \notin dirs

\* a parse that failed while the removal failed too
C2_WitnessRemovalFailed ==
    /\ pc = "handler"
    /\ packaged
    /\ failure = [stage |-> "parse", kind |-> "OSError"]
    /\ exc = "OSError"
    /\ MkdtempName \in rmfailed

\* C3: for a packaged course, when opening or extracting the archive fails
\* after mkdtemp, the temporary directory is gone when the failure leaves
\* the lesson attempt.
C3_ExtractFailureRemovesTempDir ==
    (pc = "handler" /\ failure.stage = "extract") => MkdtempName \notin dirs

(* ----------------------------- the resolver --------------------------- *)

\* C4: for every i in 1..len(lessonnames), the selector str(i) selects
\* lessonnames[i-1] (the i-th lesson), the one the menu shows next to i.
C4_IndexSelectsMenuEntry ==
    \A i \in 1..Len(lessonnames) :
        identifier = Str(i)
            => /\ failure.stage # "resolve"
               /\ pc = "extract" => /\ lessonname = lessonnames[i]
                                    /\ out[i] = Line("%d: %s", i, lessonname)

\* the selector "2" has picked the second of several lessons
C4_Witness ==
    /\ pc = "extract"
    /\ Len(lessonnames) >= 2
    /\ identifier = Str(2)
    /\ lessonname = lessonnames[2]
    /\ lessonnames[2] # lessonnames[1]

\* C5: a selector that parses as 0, as a negative integer or as an integer
\* greater than len(lessonnames) selects no lesson: it is never resolved.
C5_OutOfRangeNeverResolves ==
    (pc = "extract" /\ ParseInt(identifier).ok)
        => /\ ParseInt(identifier).val >= 1
           /\ ParseInt(identifier).val <= Len(lessonnames)

\* C6: a selector that does not parse as an integer selects the lesson of
\* that exact name, at its first position, when there is one, and fails
\* with NoSuchLessonException when there is none.
C6_NameLookup ==
    LET matches == {k \in 1..Len(lessonnames) : lessonnames[k] = identifier}
        first   == CHOOSE k \in matches : \A j \in matches : k <= j
    IN  (~ParseInt(identifier).ok /\ failure.stage \in {"none", "resolve"})
           => /\ pc = "extract"
                   => matches # {} /\ lessonname = lessonnames[first]
                      /\ lessonname = identifier
              /\ (pc = "handler" /\ failure.stage = "resolve")
                   => matches = {} /\ exc = "NoSuchLessonException"

\* a name that two lessons share has been looked up
C6_Witness ==
    /\ pc = "extract"
    /\ ~ParseInt(identifier).ok
    /\ Cardinality({k \in 1..Len(lessonnames) :
                       lessonnames[k] = identifier}) >= 2
    /\ lessonname = identifier

\* C7: a selector that parses as an integer n is resolved through the index
\* branch, also when a lesson has that very text as its name: where
\* 1 <= n it resolves only to the n-th lesson, and beyond the last lesson
\* it does not resolve although the name is there.
C7_IntegerTakesPriority ==
    LET r == ParseInt(identifier)
    IN  (pc = "extract" /\ r.ok)
           => /\ converted.isint
              /\ converted.num = r.val
              /\ r.val >= 1 => /\ r.val <= Len(lessonnames)
                               /\ lessonname = lessonnames[r.val]

\* "2" is the name of a lesson, and as a selector it has picked another
C7_Witness ==
    /\ pc = "extract"
    /\ identifier = <<"2">>
    /\ \E k \in 1..Len(lessonnames) : lessonnames[k] = identifier
    /\ lessonname # identifier

(* --------------------------- the selection loop ----------------------- *)

\* C8: when the resolver raises NoSuchLessonException the loop prints
\* "No lesson: <selector>", no temporary directory has been made for the
\* attempt, and the loop goes on: it prints the menu and prompts again.
C8_NoSuchLessonIsReported ==
    [][/\ (pc = "handler" /\ failure.stage = "resolve")
            => /\ out' = Append(out, Line("No lesson: %s", 0, identifier))
               /\ MkdtempName \notin dirs
               /\ dirs' = dirs
               /\ pc' = "menu"
       /\ (pc = "menu" /\ failure.stage = "resolve")
            => /\ out' = MenuLines(lessonnames)
               /\ pc' = "input"]_vars

\* an unknown name has been reported and the loop is back at its top
C8_Witness ==
    /\ pc = "menu"
    /\ failure.stage = "resolve"
    /\ identifier = <<"a", "a">>
    /\ out[Len(out)] = Line("No lesson: %s", 0, identifier)
    /\ dirs = {}

\* C9: a failure raised while building the path, opening or parsing the
\* lesson file or executing the lesson, of whatever kind, leaves execute:
\* the loop neither reports it nor says farewell, and does not go on.
C9_TryFailurePropagates ==
    (failure.stage \in TryStages /\ pc \notin {"cleanup", "handler"})
        => /\ pc = "raised"
           /\ exc = failure.kind

\* C10: end-of-input at the prompt ends the loop normally after the
\* farewell, and the loop ends normally only for end-of-input at the prompt.
C10_DoneIffEndOfInputAtPrompt ==
    /\ (failure.stage = "input" /\ pc # "handler")
         => /\ pc = "done"
            /\ exc = "none"
            /\ Len(out) >= 2
            /\ out[Len(out) - 1] = Line("", 0, <<>>)
            /\ out[Len(out)] = Line("Bye!", 0, <<>>)
    /\ pc = "done" => failure.stage = "input"

(* ---------------------------- loading a course ------------------------ *)

\* C11: when the course document parses to a list without elements the load
\* fails with NoCoursePresentException and no course is built; when it has
\* elements the course is built from the first of them alone.
C11_CourseFromFirstElement ==
    [][(pc = "start" /\ failure'.stage # "course.yaml")
          => IF Len(y) = 0
             THEN /\ pc' = "raised"
                  /\ exc' = "NoCoursePresentException"
                  /\ lessonnames' = <<>>
                  /\ coursename' = <<>>
                  /\ pkgname' = <<>>
             ELSE /\ pc' = "menu"
                  /\ exc' = "none"
                  /\ lessonnames' = Split(y[1].lessons, ";")
                  /\ coursename' = y[1].course
                  /\ author' = y[1].author
                  /\ version' = y[1].version]_vars

\* a document without elements has been refused
C11_Witness ==
    /\ pc = "raised"
    /\ exc = "NoCoursePresentException"
    /\ failure.stage = "load_yaml"
    /\ lessonnames = <<>>

C13_LessonFileOpened ==
    pc = "run"
        => /\ lessonpath.sub = "lessons"
           /\ lessonpath.slug = lessonname
           /\ lessonpath.ext = ".yaml"
           /\ IF coursedir = ArchivePath
              THEN /\ lessonpath.root = [tmp |-> nattempts,
                                         name |-> <<"c">>]
                   /\ tempdir = nattempts
                   /\ nattempts \in dirs
              ELSE lessonpath.root = [tmp |-> 0, name |-> coursedir]

\* the second attempt on a packaged course reads from its own directory
C13_Witness ==
    /\ pc = "run"
    /\ packaged
    /\ nattempts = 2
    /\ lessonpath.root = [tmp |-> 2, name |-> pkgname]
    /\ lessonname # <<>>

\* C14: for a course that is not packaged no attempt makes a temporary
\* directory or applies rmtree to anything, and the lesson is read from the
\* course directory itself.
C14_RawCourseTouchesNothing ==
    (pc # "start" /\ coursedir = DirectoryPath)
        => /\ dirs = {}
           /\ rmfailed = {}
           /\ tempdir = 0
           /\ pc \in {"load", "run", "cleanup"}
                => curcoursedir = [tmp |-> 0, name |-> coursedir]

\* on a raw course a lesson has failed and the except clause has been passed
C14_Witness ==
    /\ pc = "handler"
    /\ coursedir = DirectoryPath
    /\ failure.stage = "execute"
    /\ nattempts = 2
    /\ dirs = {}

\* C15: at every point of every run at most one temporary directory
\* exists.
C15_AtMostOneTempDir == Cardinality(dirs) <= 1

(* ------------------------------ termination --------------------------- *)

\* how far the program is from its end within one pass of the loop
StepsLeft ==
    CASE pc = "start"   -> 11
      [] pc = "resolve" -> 9
      [] pc = "extract" -> 8
      [] pc = "load"    -> 7
      [] pc = "run"     -> 6
      [] pc = "cleanup" -> 5
      [] pc = "handler" -> IF failure.stage = "input" THEN 1 ELSE 4
      [] pc = "menu"    -> 3
      [] pc = "input"   -> 2
      [] OTHER          -> 0

\* a measure of the lines still to be read and the steps still to be made
Distance == (MaxAttempts - nattempts) * 12 + StepsLeft

Stopped == pc \in {"done", "raised"}

\* C16: with a finite input and lesson executions that terminate the loop
\* stops: every step brings the end nearer, a step is always possible until
\* execute has returned (done) or an exception has left it (raised), and
\* from then on nothing is prompted or done any more.
C16_LoopStops ==
    /\ [][Distance' < Distance /\ Distance' >= 0 /\ ~Stopped]_vars
    /\ [](Stopped \/ ENABLED Next)

\* the whole input was read and the loop ended at its end
C16_Witness ==
    /\ pc = "done"
    /\ failure.stage = "input"
    /\ nattempts = MaxAttempts

(* ------------------------------- what is printed ---------------------- *)

Completions(lines) ==
    {k \in 1..Len(lines) : lines[k].fmt = "Lesson %s complete!"}

\* C17: "Lesson <name> complete!" is printed exactly by the step in which
\* the execute of a resolved, opened and parsed lesson returns, after a
\* blank line and with the resolved name; no other step prints it, and it
\* is not in the output of an attempt that failed at any step.
C17_CompleteExactlyOnSuccess ==
    [][/\ (pc = "run" /\ pc' = "menu")
            => /\ lessonpath = LessonPath(curcoursedir, lessonname)
               /\ failure = NoFailure
               /\ failure' = NoFailure
               /\ Len(out') = Len(out) + 2
               /\ SubSeq(out', 1, Len(out)) = out
               /\ out'[Len(out) + 1] = Line("", 0, <<>>)
               /\ out'[Len(out) + 2]
                    = Line("Lesson %s complete!", 0, lessonname)
               /\ Completions(out) = {}
       /\ ~(pc = "run" /\ pc' = "menu")
            => Completions(out') \subseteq Completions(out)
       /\ failure.stage # "none" => Completions(out) = {}
       /\ failure'.stage # "none" => Completions(out') = {}]_vars

\* the second lesson of a course has run and its completion is printed last
C17_Witness ==
    /\ pc = "menu"
    /\ Len(lessonnames) >= 2
    /\ identifier = <<"2">>
    /\ Completions(out) = {Len(out)}
    /\ out[Len(out)].text = lessonnames[2]

\* C18: whenever the loop is about to prompt, after a report or a completed
\* lesson too, it has just printed the course banner and then the menu,
\* every lesson in order with its one-based index.
C18_BannerAndMenuBeforePrompt ==
    pc = "input"
        => out = PrintLines(coursename, author, description)
                 \o [k \in 1..Len(lessonnames)
                       |-> Line("%d: %s", k, lessonnames[k])]

\* C18 as amended: whenever the loop is about to prompt it has just printed
\* the menu, every lesson in order with its one-based index, and that alone.
C18_MenuBeforePrompt ==
    pc = "input"
        => /\ Len(out) = Len(lessonnames)
           /\ \A k \in 1..Len(lessonnames) :
                 out[k] = Line("%d: %s", k, lessonnames[k])

\* a later prompt of a course with several lessons
C18_Witness ==
    /\ pc = "input"
    /\ nattempts >= 1
    /\ Len(lessonnames) >= 2
    /\ out[2] = Line("%d: %s", 2, lessonnames[2])

(* ---------------------------- the course descriptor ------------------- *)

\* C19: once the course is loaded no step of any attempt changes it:
\* lessonnames, coursedir, pkgname and packaged, and the other fields, stay
\* as the load left them.
C19_CourseNeverChanges == [][pc # "start" => UNCHANGED course]_vars

\* an attempt has failed hard and the course is as it was loaded
C19_Witness ==
    /\ pc = "raised"
    /\ failure.stage \in TryStages
    /\ nattempts = 2
    /\ Len(lessonnames) >= 2
    /\ packaged
    /\ pkgname = <<"c">>

====
